---- MODULE Spec2Model ----
(***************************************************************************)
(* ModifiableItemsDict: a dict subclass whose keys and values pass through *)
(* class-level modifier chains on construction, insertion, retrieval and   *)
(* deletion (src/modifiable_items_dictionary/modifiable_items_dictionary.py)*)
(*                                                                         *)
(* Python objects are records [kind, chars, num]:                          *)
(*   kind = "str"  : a text, chars is its sequence of characters           *)
(*   kind = "int"  : an integer, num is its value                          *)
(*   kind = "ipv6" : an ipaddress.IPv6Address, chars is its canonical text *)
(*   kind = "ipv4" : an ipaddress.IPv4Address, num is its integer value    *)
(*   kind = "none" : None                                                  *)
(*   kind = "bool" : True (num = 1) or False (num = 0)                     *)
(*   kind = "list" : the empty list, a value that cannot be hashed         *)
(*   kind = "method" : a bound method, chars is its name                   *)
(* A dict is the sequence of its <<key, value>> entries in insertion       *)
(* order, with pairwise distinct keys.                                     *)
(***************************************************************************)
EXTENDS Integers, Sequences, FiniteSets, TLC

(***************************************************************************)
(* Bounds of the model.                                                    *)
(***************************************************************************)
\* largest number of entries a dict of the model holds
MaxEntries == 2
\* largest number of elements of a positional source (mapping, list, iterator)
MaxPairs == 2
\* largest number of named values (**kwargs) of a call
MaxNamed == 1
\* largest number of functions of a modifier chain drawn for _modify_item
MaxChain == 2

(***************************************************************************)
(* Python values.                                                          *)
(***************************************************************************)
Str(cs) == [kind |-> "str", chars |-> cs, num |-> 0]
PyInt(n) == [kind |-> "int", chars |-> <<>>, num |-> n]
IPv6(cs) == [kind |-> "ipv6", chars |-> cs, num |-> 0]
IPv4(n) == [kind |-> "ipv4", chars |-> <<>>, num |-> n]
None == [kind |-> "none", chars |-> <<>>, num |-> 0]
Bool(b) == [kind |-> "bool", chars |-> <<>>, num |-> IF b THEN 1 ELSE 0]
EmptyList == [kind |-> "list", chars |-> <<>>, num |-> 0]
PyTrue == Bool(TRUE)
PyFalse == Bool(FALSE)

\* the outcome of a call: the error it raised ("none" when it returned) and
\* the value it returned
Ok(v) == [err |-> "none", v |-> v]
Err(e) == [err |-> e, v |-> None]

IsStr(x) == x.kind = "str"

\* str.casefold on one character of the model's alphabet (ASCII: lower case)
FoldChar(c) ==
    CASE c = "A" -> "a"
      [] c = "B" -> "b"
      [] c = "C" -> "c"
      [] c = "D" -> "d"
      [] c = "E" -> "e"
      [] c = "F" -> "f"
      [] c = "G" -> "g"
      [] c = "T" -> "t"
      [] OTHER -> c

RECURSIVE CaseFoldChars(_)
CaseFoldChars(cs) ==
    IF cs = <<>> THEN <<>>
    ELSE <<FoldChar(Head(cs))>> \o CaseFoldChars(Tail(cs))

RECURSIVE LStripChars(_)
LStripChars(cs) ==
    IF cs # <<>> /\ Head(cs) = " " THEN LStripChars(Tail(cs)) ELSE cs

RECURSIVE RStripChars(_)
RStripChars(cs) ==
    IF cs # <<>> /\ cs[Len(cs)] = " "
    THEN RStripChars(SubSeq(cs, 1, Len(cs) - 1))
    ELSE cs

StripChars(cs) == LStripChars(RStripChars(cs))

HexDigits ==
    {"0", "1", "2", "3", "4", "5", "6", "7", "8", "9",
     "a", "b", "c", "d", "e", "f", "A", "B", "C", "D", "E", "F"}

\* hash(x) succeeds: a list is the unhashable value of the model
Hashable(x) == x.kind # "list"

\* The texts of at most three characters that ipaddress.ip_address accepts:
\* "::", "::h" and "h::" for a hexadecimal digit h (all IPv6; the shortest
\* IPv4 text has seven characters).  Longer texts are outside the model.
IsAddressText(cs) ==
    \/ cs = <<":", ":">>
    \/ /\ Len(cs) = 3
       /\ \/ cs[1] = ":" /\ cs[2] = ":" /\ cs[3] \in HexDigits
          \/ cs[1] \in HexDigits /\ cs[2] = ":" /\ cs[3] = ":"

(***************************************************************************)
(* The modifier functions the repository's tests and examples configure.   *)
(***************************************************************************)
\* ipaddress.ip_address: parses a text, takes a non-negative integer (below
\* 2^32, as all integers of the model are) as an IPv4 address, returns an
\* address as it is, and raises ValueError for anything else, None included.
\* An IPv6 address is held as its canonical text: "::0" and "0::" are the
\* address "::", the other texts are canonical in lower case.
ip_address(x) ==
    IF x.kind \in {"ipv6", "ipv4"} THEN Ok(x)
    ELSE IF IsStr(x) /\ IsAddressText(x.chars)
         THEN Ok(IPv6(IF Len(x.chars) = 3 /\ "0" \in {x.chars[1], x.chars[3]}
                      THEN <<":", ":">>
                      ELSE CaseFoldChars(x.chars)))
    ELSE IF x.kind \in {"int", "bool"} /\ x.num >= 0 THEN Ok(IPv4(x.num))
    ELSE Err("ValueError")

\* with contextlib.suppress(ValueError): return <r>; otherwise return x
SuppressedOr(r, x) == IF r.err = "ValueError" THEN Ok(x) ELSE r

\* tests: _to_ipaddress, which suppresses the ValueError of ip_address
to_ipaddress(x) == IF IsStr(x) THEN SuppressedOr(ip_address(x), x) ELSE Ok(x)

\* tests: _strip
strip(x) == IF IsStr(x) THEN Ok(Str(StripChars(x.chars))) ELSE Ok(x)

\* tests: _case_fold
case_fold(x) == IF IsStr(x) THEN Ok(Str(CaseFoldChars(x.chars))) ELSE Ok(x)

\* examples: _add_1 (a bool is an int in Python)
add_1(x) == IF x.kind \in {"int", "bool"} THEN Ok(PyInt(x.num + 1)) ELSE Ok(x)

\* str.casefold and str.strip, unbound: TypeError for a non-text argument
str_casefold(x) ==
    IF IsStr(x) THEN Ok(Str(CaseFoldChars(x.chars))) ELSE Err("TypeError")

str_strip(x) ==
    IF IsStr(x) THEN Ok(Str(StripChars(x.chars))) ELSE Err("TypeError")

\* modifier(item) for the modifier function named f
CallModifier(f, x) ==
    CASE f = "_strip" -> strip(x)
      [] f = "_case_fold" -> case_fold(x)
      [] f = "_case_fold_string" -> case_fold(x)
      [] f = "_add_1" -> add_1(x)
      [] f = "_to_ipaddress" -> to_ipaddress(x)
      [] f = "str.casefold" -> str_casefold(x)
      [] f = "str.strip" -> str_strip(x)
      [] f = "ipaddress.ip_address" -> ip_address(x)

(***************************************************************************)
(* Modifier specifications (the class attributes _key_modifiers and        *)
(* _value_modifiers): None, a callable, an iterable of callables, a        *)
(* number, or a text.                                                      *)
(***************************************************************************)
NoModifiers == [kind |-> "none", fns |-> <<>>]
Callable(f) == [kind |-> "callable", fns |-> <<f>>]
Chain(fs) == [kind |-> "chain", fns |-> fs]
Number == [kind |-> "number", fns |-> <<>>]
Text == [kind |-> "text", fns |-> <<>>]

\* Python truthiness of a modifier specification: None and an empty
\* iterable are false, a callable, a non-zero number and a non-empty text
\* are true
Truthy(m) ==
    CASE m.kind = "none" -> FALSE
      [] m.kind = "chain" -> m.fns # <<>>
      [] OTHER -> TRUE

\* a plausible slip: the loop ends after the first modifier
ApplyRestStops(r, fns) == r

RECURSIVE ApplyChain(_, _)
\* the rest of the loop once a modifier has returned or raised r
ApplyRest(r, fns) == IF r.err # "none" THEN r ELSE ApplyChain(r.v, fns)

\* for modifier in modifiers: item = modifier(item)
ApplyChain(item, fns) ==
    IF fns = <<>> THEN Ok(item)
    ELSE ApplyRest(CallModifier(Head(fns), item), Tail(fns))

\* a plausible slip: a specification that is no callable and no iterable of
\* callables is taken as no modifiers
ModifyItemSkipsInvalid(item, modifiers) ==
    IF ~Truthy(modifiers) THEN Ok(item)
    ELSE IF modifiers.kind = "chain" THEN ApplyChain(item, modifiers.fns)
    ELSE IF modifiers.kind = "callable"
         THEN CallModifier(modifiers.fns[1], item)
         ELSE Ok(item)

\* ModifiableItemsDict._modify_item
ModifyItem(item, modifiers) ==
    IF ~Truthy(modifiers) THEN Ok(item)
    ELSE IF modifiers.kind = "text" THEN Err("TypeError")
    ELSE IF modifiers.kind = "chain" THEN ApplyChain(item, modifiers.fns)
    ELSE IF modifiers.kind = "callable"
         THEN CallModifier(modifiers.fns[1], item)
         ELSE Err("TypeError")

(***************************************************************************)
(* The built-in dict that ModifiableItemsDict inherits from.               *)
(***************************************************************************)
Keys(d) == {d[i][1] : i \in 1..Len(d)}

\* a == b for two keys, with equal hashes: values of one kind are equal when
\* they are the same value, and a bool is the integer 1 or 0 (True == 1,
\* False == 0); values of different kinds are different otherwise
PyEq(a, b) ==
    \/ a = b
    \/ /\ a.kind \in {"int", "bool"}
       /\ b.kind \in {"int", "bool"}
       /\ a.num = b.num

Has(d, k) == \E i \in 1..Len(d) : PyEq(d[i][1], k)

Lookup(d, k) == d[CHOOSE i \in 1..Len(d) : PyEq(d[i][1], k)][2]

\* d[k] = v: an existing key keeps its position and the key object stored
\* first, a new key is appended
Store(d, k, v) ==
    IF Has(d, k)
    THEN [i \in 1..Len(d) |-> IF PyEq(d[i][1], k) THEN <<d[i][1], v>> ELSE d[i]]
    ELSE Append(d, <<k, v>>)

Remove(d, k) == SelectSeq(d, LAMBDA e : ~PyEq(e[1], k))

\* the outcome of a call on the mapping: error raised, value returned and
\* the contents the call leaves behind
Outcome(e, v, d) == [err |-> e, ret |-> v, data |-> d]

\* dict.__getitem__
dict_getitem(d, k) ==
    IF ~Hashable(k) THEN Outcome("TypeError", None, d)
    ELSE IF ~Has(d, k) THEN Outcome("KeyError", None, d)
    ELSE Outcome("none", Lookup(d, k), d)

\* dict.__setitem__
dict_setitem(d, k, v) ==
    IF ~Hashable(k) THEN Outcome("TypeError", None, d)
    ELSE Outcome("none", None, Store(d, k, v))

\* dict.__delitem__
dict_delitem(d, k) ==
    IF ~Hashable(k) THEN Outcome("TypeError", None, d)
    ELSE IF ~Has(d, k) THEN Outcome("KeyError", None, d)
    ELSE Outcome("none", None, Remove(d, k))

\* dict.__contains__
dict_contains(d, k) ==
    IF ~Hashable(k) THEN Outcome("TypeError", None, d)
    ELSE Outcome("none", IF Has(d, k) THEN PyTrue ELSE PyFalse, d)

\* dict.setdefault
dict_setdefault(d, k, v) ==
    IF ~Hashable(k) THEN Outcome("TypeError", None, d)
    ELSE IF Has(d, k) THEN Outcome("none", Lookup(d, k), d)
    ELSE Outcome("none", v, Append(d, <<k, v>>))

\* the sentinel NO_DEFAULT of the module
NO_DEFAULT == [kind |-> "NO_DEFAULT", chars |-> <<>>, num |-> 0]

\* a plausible slip: the key is hashed whatever the dict holds
dict_pop_hashes_first(d, k, default) ==
    IF ~Hashable(k) THEN Outcome("TypeError", None, d)
    ELSE IF Has(d, k) THEN Outcome("none", Lookup(d, k), Remove(d, k))
    ELSE IF default = NO_DEFAULT THEN Outcome("KeyError", None, d)
    ELSE Outcome("none", default, d)

\* dict.pop(key[, default]); CPython answers for an empty dict before it
\* hashes the key
dict_pop(d, k, default) ==
    IF d = <<>>
    THEN IF default = NO_DEFAULT THEN Outcome("KeyError", None, d)
         ELSE Outcome("none", default, d)
    ELSE IF ~Hashable(k) THEN Outcome("TypeError", None, d)
    ELSE IF Has(d, k) THEN Outcome("none", Lookup(d, k), Remove(d, k))
    ELSE IF default = NO_DEFAULT THEN Outcome("KeyError", None, d)
    ELSE Outcome("none", default, d)

\* dict.get(key, default)
dict_get(d, k, default) ==
    IF ~Hashable(k) THEN Outcome("TypeError", None, d)
    ELSE Outcome("none", IF Has(d, k) THEN Lookup(d, k) ELSE default, d)

(***************************************************************************)
(* State: the class-level configuration (the class attributes and the      *)
(* name of the class) and the contents of the instance under observation.  *)
(* last records the most recent call on it, created_with the chains the    *)
(* class had when the instance was constructed.                            *)
(***************************************************************************)
VARIABLES key_modifiers, value_modifiers, map_function, type_name, data,
          created_with, last, pool

vars == <<key_modifiers, value_modifiers, map_function, type_name, data,
          created_with, last, pool>>

\* a plausible slip: the instance keeps the key chain it was created with
ModifyKeySnapshot(key) == ModifyItem(key, created_with.key_modifiers)

\* ModifiableItemsDict._modify_key
ModifyKey(key) == ModifyItem(key, key_modifiers)

\* ModifiableItemsDict._modify_value
ModifyValue(value) == ModifyItem(value, value_modifiers)

\* K(k) and V(v) of the claims, where the chains return
K(k) == ModifyKey(k).v
V(v) == ModifyValue(v).v
KDefined(k) == ModifyKey(k).err = "none"
VDefined(v) == ModifyValue(v).err = "none"
\* the key chain returns a key that a dict can hold
KStorable(k) == KDefined(k) /\ Hashable(K(k))

(***************************************************************************)
(* The item operations.  Each modifies its key (and value) and hands the   *)
(* results to the dict method; a chain that raises ends the call.          *)
(***************************************************************************)
\* the error of the first of two results that raised, "none" if neither did
FirstError(mk, mv) == IF mk.err # "none" THEN mk.err ELSE mv.err

\* return dict.__getitem__(self, k)
GetModified(d, mk) ==
    IF mk.err # "none" THEN Outcome(mk.err, None, d)
    ELSE dict_getitem(d, mk.v)

\* a plausible slip: the value chain is applied again when the value is read
Remodified(r, mv) ==
    IF r.err # "none" THEN r ELSE Outcome(mv.err, mv.v, r.data)

GetItemRemodifies(d, k) ==
    Remodified(GetModified(d, ModifyKey(k)),
               ModifyValue(GetModified(d, ModifyKey(k)).ret))

\* ModifiableItemsDict.__getitem__
GetItem(d, k) == GetModified(d, ModifyKey(k))

\* dict.__setitem__(self, k, v)
SetModified(d, mk, mv) ==
    IF FirstError(mk, mv) # "none" THEN Outcome(FirstError(mk, mv), None, d)
    ELSE dict_setitem(d, mk.v, mv.v)

\* ModifiableItemsDict.__setitem__
SetItem(d, k, v) == SetModified(d, ModifyKey(k), ModifyValue(v))

\* dict.__delitem__(self, v)
DelModified(d, mk) ==
    IF mk.err # "none" THEN Outcome(mk.err, None, d)
    ELSE dict_delitem(d, mk.v)

\* a plausible slip: the key is looked up as the caller passed it
DelItemRawKey(d, k) == dict_delitem(d, k)

\* ModifiableItemsDict.__delitem__
DelItem(d, k) == DelModified(d, ModifyKey(k))

\* _is_in = dict.__contains__(self, __item)
ContainsModified(d, mk) ==
    IF mk.err # "none" THEN Outcome(mk.err, None, d)
    ELSE dict_contains(d, mk.v)

\* a plausible slip: the key is looked up as the caller passed it
ContainsRawKey(d, k) == dict_contains(d, k)

\* ModifiableItemsDict.__contains__
Contains(d, k) == ContainsModified(d, ModifyKey(k))

\* a plausible slip: the value dict.setdefault returned is returned
Returned(r) == r

\* the caller gets None whatever dict.setdefault returned
Dropped(r) == Outcome(r.err, None, r.data)

\* dict.setdefault(self, __key, __default)
SetDefaultModified(d, mk, mv) ==
    IF FirstError(mk, mv) # "none" THEN Outcome(FirstError(mk, mv), None, d)
    ELSE Dropped(dict_setdefault(d, mk.v, mv.v))

\* a plausible slip: the default is stored whether or not the key is there
SetDefaultOverwrites(d, k, default) ==
    SetModified(d, ModifyKey(k), ModifyValue(default))

\* ModifiableItemsDict.setdefault
SetDefault(d, k, default) ==
    SetDefaultModified(d, ModifyKey(k), ModifyValue(default))

\* dict.pop(self, __key) or dict.pop(self, __key, default)
PopModified(d, mk, default) ==
    IF mk.err # "none" THEN Outcome(mk.err, None, d)
    ELSE dict_pop(d, mk.v, default)

\* a plausible slip: the value is read but the entry stays
Kept(r, d) == Outcome(r.err, r.ret, d)

PopKeepsEntry(d, k, default) == Kept(PopModified(d, ModifyKey(k), default), d)

\* ModifiableItemsDict.pop
Pop(d, k, default) == PopModified(d, ModifyKey(k), default)

\* dict.get(self, __key, default)
GetModifiedOr(d, mk, default) ==
    IF mk.err # "none" THEN Outcome(mk.err, None, d)
    ELSE dict_get(d, mk.v, default)

\* a plausible slip: the value chain is applied to the default
GetModifiesDefault(d, k, default) ==
    GetModifiedOr(d, ModifyKey(k), ModifyValue(default).v)

\* ModifiableItemsDict.get
Get(d, k, default) == GetModifiedOr(d, ModifyKey(k), default)

(***************************************************************************)
(* Bulk construction and update.  A positional source is None, a mapping,  *)
(* a list, a one-shot iterator (the iterator of a list or a generator) or  *)
(* the number 1, which is neither a mapping nor an iterable; the elements  *)
(* of a source are tuples of values (a pair has two components).  Named    *)
(* values are a dict with text keys.                                       *)
(***************************************************************************)
NoSource == [kind |-> "none", elems |-> <<>>]
Source(kind, elems) == [kind |-> kind, elems |-> elems]

\* bool(source): None and an empty mapping or list are false, an iterator
\* and the number 1 are true
SourceTruthy(src) ==
    CASE src.kind = "none" -> FALSE
      [] src.kind = "iterator" -> TRUE
      [] src.kind = "number" -> TRUE
      [] OTHER -> src.elems # <<>>

\* return _key, _value
ModifiedPair(mk, mv) ==
    IF mk.err # "none" THEN mk
    ELSE IF mv.err # "none" THEN mv
    ELSE [err |-> "none", v |-> <<mk.v, mv.v>>]

\* ModifiableItemsDict._modify_key_and_item: the unpacking raises ValueError
\* for an element that has not two components
ModifyKeyAndItem(key_and_value) ==
    IF Len(key_and_value) # 2 THEN Err("ValueError")
    ELSE ModifiedPair(IF Truthy(key_modifiers)
                      THEN ModifyKey(key_and_value[1])
                      ELSE Ok(key_and_value[1]),
                      IF Truthy(value_modifiers)
                      THEN ModifyValue(key_and_value[2])
                      ELSE Ok(key_and_value[2]))

\* the outcome of transforming a source: the error raised, the new mapping
\* and the number of elements taken from the source
Transformed(e, d, n) == [err |-> e, d |-> d, consumed |-> n]

RECURSIVE MapSequential(_, _, _)
\* the comprehension takes the i-th result r of the map: an error ends it,
\* a pair is stored
Comprehend(elems, i, acc, r) ==
    IF r.err # "none" THEN Transformed(r.err, <<>>, i)
    ELSE IF ~Hashable(r.v[1]) THEN Transformed("TypeError", <<>>, i)
    ELSE MapSequential(elems, i + 1, Store(acc, r.v[1], r.v[2]))

\* {key: value for key, value in map(self._modify_key_and_item, iterable)}
MapSequential(elems, i, acc) ==
    IF i > Len(elems) THEN Transformed("none", acc, Len(elems))
    ELSE Comprehend(elems, i, acc, ModifyKeyAndItem(elems[i]))

\* ModifiableItemsDict._create_modified_mapping
CreateModifiedMapping(elems) == MapSequential(elems, 1, <<>>)

\* return self._create_modified_mapping(<iterable>): the new mapping takes
\* the place of the argument
NewMapping(t) ==
    [err |-> t.err, m |-> Source("mapping", t.d), consumed |-> t.consumed]

\* ModifiableItemsDict._iterable_to_modified_dict: the items of a mapping
\* or the elements of an iterable are transformed; an argument that is
\* neither is returned as it is
IterableToModifiedDict(src) ==
    IF src.kind = "number" THEN [err |-> "none", m |-> src, consumed |-> 0]
    ELSE NewMapping(CreateModifiedMapping(src.elems))

RECURSIVE MergeFromSeq2(_, _, _)
\* dict.update from an iterable of pairs: stores pair by pair and stops
\* with ValueError at the first element that is not a pair (or at which the
\* iterator raises it)
MergeFromSeq2(d, elems, i) ==
    IF i > Len(elems) THEN Outcome("none", None, d)
    ELSE IF Len(elems[i]) # 2 THEN Outcome("ValueError", None, d)
    ELSE IF ~Hashable(elems[i][1]) THEN Outcome("TypeError", None, d)
    ELSE MergeFromSeq2(Store(d, elems[i][1], elems[i][2]), elems, i + 1)

\* the keywords are merged after the positional argument, unless that raised
MergeKeywords(r, kwargs) ==
    IF r.err # "none" THEN r ELSE MergeFromSeq2(r.data, kwargs, 1)

\* dict.update(self, m, **kwargs) and dict.__init__(self, m, **kwargs):
\* the keywords are checked when the call is made, then m is merged, then
\* the keywords
dict_update(d, m, kwargs) ==
    IF \E i \in 1..Len(kwargs) : ~IsStr(kwargs[i][1])
    THEN Outcome("TypeError", None, d)
    ELSE IF m.kind = "number"
    THEN \* 'int' object is not iterable
         Outcome("TypeError", None, d)
    ELSE MergeKeywords(MergeFromSeq2(d, m.elems, 1), kwargs)

\* what is left of a source after n of its elements were taken: an iterator
\* has lost them, a list or mapping has not
Rest(src, n) ==
    IF src.kind = "iterator"
    THEN Source("iterator", SubSeq(src.elems, n + 1, Len(src.elems)))
    ELSE src

\* the arguments as the with-block of __init__ and update leaves them
Arguments(e, m, kwargs) == [err |-> e, m |-> m, kwargs |-> kwargs]

\*     with contextlib.suppress(ValueError):
\*         if m: m = self._iterable_to_modified_dict(m)
\*         if kwargs: kwargs = self._iterable_to_modified_dict(kwargs)
\* A ValueError ends the block and is dropped: what was not yet replaced by
\* its modified mapping stays as the caller passed it.

\* kwargs = <tk>, the last statement of the block
NamedModified(src, m1, kwargs, tk) ==
    IF tk.err = "ValueError" THEN Arguments("none", m1, kwargs)
    ELSE IF tk.err # "none" THEN Arguments(tk.err, src, kwargs)
    ELSE Arguments("none", m1, tk.d)

\* if kwargs: kwargs = self._iterable_to_modified_dict(kwargs)
ModifyNamed(src, m1, kwargs) ==
    IF kwargs = <<>> THEN Arguments("none", m1, kwargs)
    ELSE NamedModified(src, m1, kwargs, CreateModifiedMapping(kwargs))

\* m = <tm>, then the named values
SourceModified(src, kwargs, tm) ==
    IF tm.err = "ValueError"
    THEN Arguments("none", Rest(src, tm.consumed), kwargs)
    ELSE IF tm.err # "none" THEN Arguments(tm.err, src, kwargs)
    ELSE ModifyNamed(src, tm.m, kwargs)

SuppressValueError(src, kwargs) ==
    IF ~SourceTruthy(src) THEN ModifyNamed(src, src, kwargs)
    ELSE SourceModified(src, kwargs, IterableToModifiedDict(src))

\* dict.update(self, m or dict(), **kwargs), unless the block raised
Merge(d, a) ==
    IF a.err # "none" THEN Outcome(a.err, None, d)
    ELSE dict_update(d, a.m, a.kwargs)

\* a plausible slip: the named values are merged before the positional source
PositionalLast(r, m) ==
    IF r.err # "none" THEN r ELSE dict_update(r.data, m, <<>>)

MergeNamedFirst(d, a) ==
    IF a.err # "none" THEN Outcome(a.err, None, d)
    ELSE PositionalLast(dict_update(d, NoSource, a.kwargs), a.m)

ModifyAndMergeNamedFirst(d, src, kwargs) ==
    MergeNamedFirst(d, SuppressValueError(src, kwargs))

\* The body of __init__ and of update: the with-block, then the merge
ModifyAndMerge(d, src, kwargs) == Merge(d, SuppressValueError(src, kwargs))

\* ModifiableItemsDict.update
Update(d, src, kwargs) == ModifyAndMerge(d, src, kwargs)

\* a constructor that raises leaves no instance
Constructed(r) == IF r.err # "none" THEN Outcome(r.err, None, <<>>) ELSE r

\* ModifiableItemsDict.__init__
New(src, kwargs) == Constructed(ModifyAndMerge(<<>>, src, kwargs))

RECURSIVE FromKeysLoop(_, _, _, _)
\* dict.fromkeys over the elements of an iterable: every key gets the value,
\* a key met again keeps its place
FromKeysLoop(d, keys, i, value) ==
    IF i > Len(keys) THEN Outcome("none", None, d)
    ELSE IF ~Hashable(keys[i][1]) THEN Outcome("TypeError", None, d)
    ELSE FromKeysLoop(Store(d, keys[i][1], value), keys, i + 1, value)

\* dict.fromkeys(iterable, value): TypeError for an argument that is not
\* iterable
dict_fromkeys(iterable, value) ==
    IF iterable.kind = "number" THEN Outcome("TypeError", None, <<>>)
    ELSE FromKeysLoop(<<>>, iterable.elems, 1, value)

\* cls(<r>), unless dict.fromkeys raised
ClsOf(r) ==
    IF r.err # "none" THEN Outcome(r.err, None, <<>>)
    ELSE New(Source("mapping", r.data), <<>>)

\* a plausible slip: the value is modified before dict.fromkeys and again by
\* the constructor
FromKeysModifiesTwice(iterable, value) ==
    ClsOf(dict_fromkeys(iterable, ModifyValue(value).v))

\* ModifiableItemsDict.fromkeys
FromKeys(iterable, value) == ClsOf(dict_fromkeys(iterable, value))

(***************************************************************************)
(* The classes and the arguments of the calls.                             *)
(***************************************************************************)
Class(name, km, vm) ==
    [name |-> name, key_modifiers |-> km, value_modifiers |-> vm]

Classes ==
    { \* ModifiableItemsDict itself: no modifiers
      Class("ModifiableItemsDict", NoModifiers, NoModifiers),
      \* tests: HostDict
      Class("HostDict", Chain(<<"_strip", "_case_fold">>),
            Callable("_to_ipaddress")),
      \* examples: simple_example, which configures ModifiableItemsDict
      Class("ModifiableItemsDict", Chain(<<"str.casefold">>),
            Chain(<<"_add_1", "_case_fold_string">>)),
      \* examples: HostDict
      Class("HostDict", Chain(<<"str.casefold", "str.strip">>),
            Chain(<<"ipaddress.ip_address">>)),
      \* a dict keyed by address
      Class("AddrDict", Chain(<<"ipaddress.ip_address">>), NoModifiers),
      \* tests: BadModifierTest, with a number and with a text
      Class("BadModifierTest", Number, NoModifiers),
      Class("BadModifierTest", Text, NoModifiers),
      \* the same for the values
      Class("BadModifierTest", NoModifiers, Number) }

\* "A" and "a" fold to one key; "::" is the text of an address; the empty
\* list cannot be hashed
RawKeys == {Str(<<"A">>), Str(<<"a">>), Str(<<":", ":">>), EmptyList}

\* "A" is a text that is no address, 1 is an integer (and an IPv4 address)
RawValues == {Str(<<"A">>), PyInt(1)}

\* the elements of positional sources: two pairs whose keys fold to one key
\* and an element of three components
Malformed == <<Str(<<"A">>), Str(<<"A">>), Str(<<"A">>)>>

SourceElems ==
    { <<Str(<<"A">>), Str(<<"A">>)>>,
      <<Str(<<"a">>), PyInt(1)>>,
      Malformed }

\* positional sources with a pair whose key cannot be hashed, alone and
\* after a pair that can be stored
UnhashableSources ==
    { Source("list", << <<EmptyList, PyInt(1)>> >>),
      Source("list", << <<Str(<<"a">>), PyInt(1)>>, <<EmptyList, PyInt(1)>> >>),
      Source("iterator",
             << <<Str(<<"a">>), PyInt(1)>>, <<EmptyList, PyInt(1)>> >>) }

\* the name=value pairs of **kwargs
NamedPairs ==
    { <<Str(<<"A">>), Str(<<"A">>)>>,
      <<Str(<<":", ":">>), PyInt(1)>> }

SeqsUpTo(S, n) == UNION {[1..m -> S] : m \in 0..n}

DistinctKeys(s) ==
    \A i, j \in 1..Len(s) : i # j => ~PyEq(s[i][1], s[j][1])

\* the items of a mapping: pairs with distinct, hashable keys
IsMapping(s) ==
    /\ DistinctKeys(s)
    /\ \A i \in 1..Len(s) : Len(s[i]) = 2 /\ Hashable(s[i][1])

Sources ==
    {NoSource}
    \cup {Source("list", s) : s \in SeqsUpTo(SourceElems, MaxPairs)}
    \cup {Source("iterator", s) : s \in SeqsUpTo(SourceElems, MaxPairs)}
    \cup {Source("mapping", s) :
            s \in {t \in SeqsUpTo(SourceElems, MaxPairs) : IsMapping(t)}}
    \cup UnhashableSources
    \cup {Source("number", <<>>)}

Kwargs == {s \in SeqsUpTo(NamedPairs, MaxNamed) : DistinctKeys(s)}

\* the first argument of fromkeys: an iterable of keys (its elements are
\* the 1-tuples of the keys) or the number 1, which is not iterable
KeyIterables ==
    {Source("keys", s) : s \in SeqsUpTo({<<k>> : k \in RawKeys}, MaxPairs)}
    \cup {Source("number", <<>>)}

(***************************************************************************)
(* Actions: one call on the instance each.                                 *)
(***************************************************************************)
\* the chains of the class as they are now
Chains ==
    [key_modifiers |-> key_modifiers, value_modifiers |-> value_modifiers]

\* A call is made once the caller has taken the outcome of the previous one
\* (Return); its outcome is recorded in last.
\* a bulk call that transforms its arguments through the map function of
\* the class is in one of the phases "source" (the positional argument is
\* being transformed), "named" (the named values are) and "merge" (the
\* with-block is left, dict.update is next); "idle" when there is none.
\* given and value are the arguments as the caller passed them, src is the
\* source __init__ or update got, m1 what the with-block has made of it,
\* elems the elements of the iterable being transformed, taken the number
\* of them the map function has taken, tasks what has become of each of
\* these, queue the finished tasks in the order of completion, next the
\* number of results the comprehension has taken, acc the new mapping and
\* args the arguments as the with-block left them.
Idle ==
    [phase |-> "idle", op |-> "none", given |-> NoSource, value |-> None,
     src |-> NoSource, kwargs |-> <<>>, before |-> <<>>, m1 |-> NoSource,
     elems |-> <<>>, taken |-> 0, tasks |-> <<>>, queue |-> <<>>,
     next |-> 0, acc |-> <<>>, args |-> Arguments("none", NoSource, <<>>)]

\* the outcome of a call becomes visible: the contents and the record of it
Recorded(op, k, v, src, kwargs, before, out) ==
    /\ last.op = "none"
    /\ Len(out.data) <= MaxEntries
    /\ data' = out.data
    /\ last' = [op |-> op, key |-> k, value |-> v, src |-> src,
                kwargs |-> kwargs, before |-> before,
                err |-> out.err, ret |-> out.ret]
    /\ created_with' = IF op \in {"init", "fromkeys"}
                       THEN Chains
                       ELSE created_with
    /\ UNCHANGED <<key_modifiers, value_modifiers, map_function, type_name>>

\* a call that runs from its beginning to its end in one step
Call(op, k, v, src, kwargs, before, out) ==
    /\ Recorded(op, k, v, src, kwargs, before, out)
    /\ UNCHANGED pool

NoCall ==
    [op |-> "none", key |-> None, value |-> None, src |-> NoSource,
     kwargs |-> <<>>, before |-> <<>>, err |-> "none", ret |-> None]

\* the class c is defined and an empty instance of it is made
Defined(c) ==
    /\ type_name = c.name
    /\ key_modifiers = c.key_modifiers
    /\ value_modifiers = c.value_modifiers
    /\ map_function = "map"
    /\ data = <<>>
    /\ created_with = [key_modifiers |-> c.key_modifiers,
                       value_modifiers |-> c.value_modifiers]
    /\ last = NoCall
    /\ pool = Idle

Init == \E c \in Classes : Defined(c)

\* d = cls(src, **kwargs): __init__ runs on a new, empty instance; when it
\* raises there is no instance and the model stays at the empty one
Construct ==
    /\ data = <<>>
    /\ \E src \in Sources, kwargs \in Kwargs :
          Call("init", None, None, src, kwargs, <<>>, New(src, kwargs))

\* d = cls.fromkeys(iterable, value): a new instance, as in Construct; an
\* omitted value is None
DoFromKeys ==
    /\ data = <<>>
    /\ \E iterable \in KeyIterables, v \in RawValues \cup {None} :
          Call("fromkeys", None, v, iterable, <<>>, <<>>,
               FromKeys(iterable, v))

DoUpdate ==
    \E src \in Sources, kwargs \in Kwargs :
        Call("update", None, None, src, kwargs, data,
             Update(data, src, kwargs))

DoGetItem ==
    \E k \in RawKeys :
        Call("getitem", k, None, NoSource, <<>>, data, GetItem(data, k))

DoSetItem ==
    \E k \in RawKeys, v \in RawValues :
        Call("setitem", k, v, NoSource, <<>>, data, SetItem(data, k, v))

DoDelItem ==
    \E k \in RawKeys :
        Call("delitem", k, None, NoSource, <<>>, data, DelItem(data, k))

DoContains ==
    \E k \in RawKeys :
        Call("contains", k, None, NoSource, <<>>, data, Contains(data, k))

DoSetDefault ==
    \E k \in RawKeys, v \in RawValues \cup {None} :
        Call("setdefault", k, v, NoSource, <<>>, data,
             SetDefault(data, k, v))

DoPop ==
    \E k \in RawKeys, v \in {NO_DEFAULT, Str(<<"A">>)} :
        Call("pop", k, v, NoSource, <<>>, data, Pop(data, k, v))

DoGet ==
    \E k \in RawKeys, v \in {None, Str(<<"A">>)} :
        Call("get", k, v, NoSource, <<>>, data, Get(data, k, v))

\* the caller takes the outcome of the call; the mapping is left as it is
Return ==
    /\ last.op # "none"
    /\ last' = NoCall
    /\ UNCHANGED <<key_modifiers, value_modifiers, map_function, type_name,
                   data, created_with, pool>>

Next ==
    \/ Return
    \/ Construct
    \/ DoFromKeys
    \/ DoUpdate
    \/ DoGetItem
    \/ DoSetItem
    \/ DoDelItem
    \/ DoContains
    \/ DoSetDefault
    \/ DoPop
    \/ DoGet

Spec == Init /\ [][Next]_vars

(***************************************************************************)
(* Live configuration: the chains are class attributes, and a program may  *)
(* assign them while instances exist, as examples.simple_example does with *)
(* ModifiableItemsDict itself.                                             *)
(***************************************************************************)
LiveKeyModifiers == {NoModifiers, Chain(<<"str.casefold">>)}

LiveValueModifiers ==
    {NoModifiers, Chain(<<"_add_1", "_case_fold_string">>)}

\* the assignment is recorded like a call; it touches no instance
Assigned(op) == [NoCall EXCEPT !.op = op, !.before = data]

\* cls._key_modifiers = km
SetKeyModifiers ==
    /\ last.op = "none"
    /\ \E km \in LiveKeyModifiers \ {key_modifiers} : key_modifiers' = km
    /\ last' = Assigned("_key_modifiers")
    /\ UNCHANGED <<value_modifiers, map_function, type_name, data,
                   created_with, pool>>

\* cls._value_modifiers = vm
SetValueModifiers ==
    /\ last.op = "none"
    /\ \E vm \in LiveValueModifiers \ {value_modifiers} :
          value_modifiers' = vm
    /\ last' = Assigned("_value_modifiers")
    /\ UNCHANGED <<key_modifiers, map_function, type_name, data,
                   created_with, pool>>

InitLive == Defined(Class("ModifiableItemsDict", NoModifiers, NoModifiers))

\* instances are constructed and used item by item while the class is
\* reconfigured
NextLive ==
    \/ Return
    \/ Construct
    \/ DoGetItem
    \/ DoSetItem
    \/ DoDelItem
    \/ DoContains
    \/ DoSetDefault
    \/ DoPop
    \/ DoGet
    \/ SetKeyModifiers
    \/ SetValueModifiers

SpecLive == InitLive /\ [][NextLive]_vars

(***************************************************************************)
(* ModifiableItemsAttrDict: attribute access to the items                  *)
(* (src/modifiable_items_dictionary/modifiable_items_attribute_dictionary  *)
(* .py).  Attribute names are texts.                                       *)
(***************************************************************************)
BoundMethod(name) == [kind |-> "method", chars |-> name.chars, num |-> 0]

\* the names that the class itself defines, among the names of the model:
\* the method get.  Python finds them on the type and does not call
\* __getattr__ for them.
ClassAttributes == {Str(<<"g", "e", "t">>)}

\* f"'{self.__class__.__name__}' object has no attribute '{name}'."
Message(name) ==
    Str(<<"'", type_name, "' object has no attribute '">>
        \o name.chars \o <<"'.">>)

\* raise AttributeError(...)
AttributeError(d, name) == Outcome("AttributeError", Message(name), d)

\* try: value = self[name]; except KeyError: raise AttributeError(...)
ExceptKeyError(r, name) ==
    IF r.err = "KeyError" THEN AttributeError(r.data, name) ELSE r

\* ModifiableItemsAttrDict.__getattr__
GetAttrHook(d, name) == ExceptKeyError(GetItem(d, name), name)

\* a plausible slip: the item is looked up under the name as it was written
GetAttrRawName(d, name) ==
    IF name \in ClassAttributes THEN Outcome("none", BoundMethod(name), d)
    ELSE ExceptKeyError(dict_getitem(d, name), name)

\* d.name: the attribute of the class if there is one, else __getattr__
GetAttr(d, name) ==
    IF name \in ClassAttributes THEN Outcome("none", BoundMethod(name), d)
    ELSE GetAttrHook(d, name)

\* a plausible slip: the item is stored under the name as it was written
SetAttrRawName(d, name, value) ==
    SetModified(d, Ok(name), ModifyValue(value))

\* ModifiableItemsAttrDict.__setattr__
SetAttr(d, name, value) == SetItem(d, name, value)

\* if name in self: del self[name]; else: raise AttributeError(...)
DelIfContained(d, name, isin) ==
    IF isin.err # "none" THEN isin
    ELSE IF isin.ret = PyTrue THEN DelItem(d, name)
    ELSE AttributeError(d, name)

\* a plausible slip: the item is deleted without the membership test
DelAttrUnchecked(d, name) == DelItem(d, name)

\* ModifiableItemsAttrDict.__delattr__
DelAttr(d, name) == DelIfContained(d, name, Contains(d, name))

AttrClasses ==
    { \* tests: ModifiableItemsAttrDict itself
      Class("ModifiableItemsAttrDict", NoModifiers, NoModifiers),
      \* examples: modifiable_items_attr_dict_example
      Class("ModifiableItemsAttrDict", Chain(<<"str.casefold">>),
            Chain(<<"_add_1", "_case_fold_string">>)),
      \* a subclass with the chains of the tests' HostDict
      Class("HostAttrDict", Chain(<<"_strip", "_case_fold">>),
            Callable("_to_ipaddress")) }

\* "A" and "a", and the name of a method in two spellings
AttrNames ==
    {Str(<<"A">>), Str(<<"a">>), Str(<<"g", "e", "t">>),
     Str(<<"G", "E", "T">>)}

DoGetAttr ==
    \E name \in AttrNames :
        Call("getattr", name, None, NoSource, <<>>, data,
             GetAttr(data, name))

DoSetAttr ==
    \E name \in AttrNames, v \in RawValues :
        Call("setattr", name, v, NoSource, <<>>, data,
             SetAttr(data, name, v))

DoDelAttr ==
    \E name \in AttrNames :
        Call("delattr", name, None, NoSource, <<>>, data,
             DelAttr(data, name))

InitAttr == \E c \in AttrClasses : Defined(c)

\* attribute access and item access on one instance
NextAttr ==
    \/ Return
    \/ DoGetAttr
    \/ DoSetAttr
    \/ DoDelAttr
    \/ DoGetItem
    \/ DoSetItem
    \/ DoDelItem
    \/ DoPop

SpecAttr == InitAttr /\ [][NextAttr]_vars

(***************************************************************************)
(* _modify_item on its own: a class is given any modifier specification    *)
(* and the specification is applied to an item.                            *)
(***************************************************************************)
\* the names CallModifier knows
Modifiers ==
    {"_strip", "_case_fold", "_case_fold_string", "_add_1", "_to_ipaddress",
     "str.casefold", "str.strip", "ipaddress.ip_address"}

\* None, a number, a text, a callable, and the chains of at most MaxChain
\* functions, the empty one included
ModifierSpecs ==
    {NoModifiers, Number, Text}
    \cup {Callable(f) : f \in Modifiers}
    \cup {Chain(fs) : fs \in SeqsUpTo(Modifiers, MaxChain)}

\* a text to strip and fold, the text of an address, a text of the address
\* "::" that is not its canonical text, an integer and None
Items ==
    {Str(<<" ", "A">>), Str(<<"A", ":", ":">>), Str(<<":", ":", "0">>),
     PyInt(1), None}

InitModify ==
    /\ type_name = "ModifiableItemsDict"
    /\ key_modifiers \in ModifierSpecs
    /\ value_modifiers = NoModifiers
    /\ map_function = "map"
    /\ data = <<>>
    /\ created_with = Chains
    /\ last = NoCall
    /\ pool = Idle

\* the outcome r of self._modify_key(item) is recorded
Applied(item, r) ==
    [NoCall EXCEPT !.op = "_modify_item", !.key = item,
                   !.err = r.err, !.ret = r.v]

DoModifyItem ==
    /\ last.op = "none"
    /\ \E item \in Items : last' = Applied(item, ModifyKey(item))
    /\ UNCHANGED <<key_modifiers, value_modifiers, map_function, type_name,
                   data, created_with, pool>>

\* an instance is constructed by a class with no modifiers
ConstructPlain ==
    /\ ~Truthy(key_modifiers)
    /\ Construct

NextModify ==
    \/ Return
    \/ DoModifyItem
    \/ ConstructPlain

SpecModify == InitModify /\ [][NextModify]_vars

(***************************************************************************)
(* Keys under a chain that is not idempotent: _add_1 of the examples as    *)
(* the key chain of a class, and integer keys; True, which the tests store *)
(* as a key (valid_mapping), is the same key as 1.                          *)
(***************************************************************************)
KeyClasses ==
    { \* a class that counts its integer keys up
      Class("CountDict", Chain(<<"_add_1">>), NoModifiers),
      \* examples: HostDict
      Class("HostDict", Chain(<<"str.casefold", "str.strip">>),
            Chain(<<"ipaddress.ip_address">>)),
      \* tests: HostDict, whose chains leave an integer as it is
      Class("HostDict", Chain(<<"_strip", "_case_fold">>),
            Callable("_to_ipaddress")) }

\* the integer 1 and True, which are one key of a dict
IntKeys == {PyInt(1), PyTrue}

InitKeys == \E c \in KeyClasses : Defined(c)

DoSetItemInt ==
    \E k \in IntKeys, v \in RawValues :
        Call("setitem", k, v, NoSource, <<>>, data, SetItem(data, k, v))

DoGetItemInt ==
    \E k \in IntKeys :
        Call("getitem", k, None, NoSource, <<>>, data, GetItem(data, k))

DoContainsInt ==
    \E k \in IntKeys :
        Call("contains", k, None, NoSource, <<>>, data, Contains(data, k))

DoDelItemInt ==
    \E k \in IntKeys :
        Call("delitem", k, None, NoSource, <<>>, data, DelItem(data, k))

\* construction, update and the item calls, also with integer keys
NextKeys ==
    \/ Return
    \/ Construct
    \/ DoUpdate
    \/ DoGetItem
    \/ DoSetItem
    \/ DoDelItem
    \/ DoContains
    \/ DoSetItemInt
    \/ DoGetItemInt
    \/ DoContainsInt
    \/ DoDelItemInt

SpecKeys == InitKeys /\ [][NextKeys]_vars

(***************************************************************************)
(* The map function of the class: _create_modified_mapping hands            *)
(* _modify_key_and_item and the iterable to self._map_function, which is   *)
(* the built-in map or, as in examples.threading_example, imap or          *)
(* imap_unordered of a multiprocessing.pool.ThreadPool.  A bulk call is    *)
(* then a sequence of steps: the map function takes the elements of the    *)
(* iterable one by one, each element is a task on which a worker applies   *)
(* the key chain and then the value chain, and the comprehension takes the *)
(* results and writes them to the new mapping.  The built-in map takes an  *)
(* element when the comprehension asks for the next result; a pool takes   *)
(* the elements in a thread of its own and has several tasks under way.    *)
(***************************************************************************)
MapFunctions == {"map", "imap", "imap_unordered"}

PoolTask(stage, pair, err) == [stage |-> stage, pair |-> pair, err |-> err]

\* _key, _value = key_and_value; _key = self._modify_key(_key)
KeyStep(t) ==
    IF Len(t.pair) # 2 THEN PoolTask("failed", t.pair, "ValueError")
    ELSE LET mk == IF Truthy(key_modifiers)
                   THEN ModifyKey(t.pair[1])
                   ELSE Ok(t.pair[1])
         IN  IF mk.err # "none" THEN PoolTask("failed", t.pair, mk.err)
             ELSE PoolTask("key", <<mk.v, t.pair[2]>>, "none")

\* _value = self._modify_value(_value); return _key, _value
ValueStep(t) ==
    LET mv == IF Truthy(value_modifiers)
              THEN ModifyValue(t.pair[2])
              ELSE Ok(t.pair[2])
    IN  IF mv.err # "none" THEN PoolTask("failed", t.pair, mv.err)
        ELSE PoolTask("done", <<t.pair[1], mv.v>>, "none")

\* the with-block is left with the arguments args
Merging(args) ==
    [pool EXCEPT !.phase = "merge", !.args = args, !.elems = <<>>,
                 !.taken = 0, !.tasks = <<>>, !.queue = <<>>, !.next = 0,
                 !.acc = <<>>]

\* self._iterable_to_modified_dict(<elems>) begins
Transforming(p, phase, elems, m1) ==
    [p EXCEPT !.phase = phase, !.elems = elems, !.m1 = m1, !.taken = 0,
              !.tasks = <<>>, !.queue = <<>>, !.next = 0, !.acc = <<>>]

\* the call has its arguments: if iterable / if kwargs / neither; a number
\* is returned as it is, without a call of the map function
Entered(p) ==
    IF SourceTruthy(p.src) /\ p.src.kind # "number"
    THEN Transforming(p, "source", p.src.elems, p.src)
    ELSE IF p.kwargs # <<>>
         THEN Transforming(p, "named", p.kwargs, p.src)
         ELSE [p EXCEPT !.phase = "merge",
                        !.args = Arguments("none", p.src, p.kwargs)]

\* a bulk call begins, when there is room for what it may store
Begin(op, given, value, src, kwargs) ==
    /\ last.op = "none"
    /\ pool.phase = "idle"
    /\ Len(data) + Len(src.elems) + Len(kwargs) <= MaxEntries
    /\ pool' = Entered([Idle EXCEPT !.op = op, !.given = given,
                                    !.value = value, !.src = src,
                                    !.kwargs = kwargs, !.before = data])
    /\ UNCHANGED <<key_modifiers, value_modifiers, map_function, type_name,
                   data, created_with, last>>

\* the sources and named values of the bulk calls: pairs with one modified
\* key and with two, a value that is no address, an element of three
\* components, as lists, one-shot iterators and mappings
PoolSources ==
    { NoSource,
      Source("list", << <<Str(<<"A">>), Str(<<"A">>)>>,
                        <<Str(<<"a">>), PyInt(1)>> >>),
      Source("list", << <<Str(<<"a">>), PyInt(1)>>,
                        <<Str(<<"A">>), PyInt(2)>> >>),
      Source("iterator", << <<Str(<<"a">>), Str(<<"A">>)>>,
                            <<Str(<<":", ":">>), PyInt(1)>> >>),
      Source("iterator", << <<Str(<<"a">>), PyInt(1)>>, Malformed >>),
      Source("mapping", << <<Str(<<"A">>), PyInt(1)>>,
                           <<Str(<<":", ":">>), PyInt(2)>> >>),
      Source("list", << <<Str(<<":", ":">>), PyInt(2)>> >>),
      Source("iterator", << <<Str(<<":", ":">>), Str(<<"A">>)>> >>) }

\* the named values of the bulk calls: none, or A=1
PoolNamed == {<<>>, << <<Str(<<"A">>), PyInt(1)>> >>}

\* d = cls(src, **kwargs)
BeginInit ==
    /\ data = <<>>
    /\ \E src \in PoolSources, kwargs \in PoolNamed :
          Begin("init", src, None, src, kwargs)

\* d.update(src, **kwargs)
BeginUpdate ==
    \E src \in PoolSources, kwargs \in PoolNamed :
        Begin("update", src, None, src, kwargs)

\* the key iterables of fromkeys: two keys with one modified key, two with
\* two, all of which can be hashed
PoolKeys ==
    { Source("keys", << <<Str(<<"A">>)>>, <<Str(<<"a">>)>> >>),
      Source("keys", << <<Str(<<"a">>)>>, <<Str(<<":", ":">>)>> >>) }

\* cls(<r>), where r is what dict.fromkeys(iterable, value) returned
BeginCls(iterable, value, r) ==
    /\ r.err = "none"
    /\ Begin("fromkeys", iterable, value, Source("mapping", r.data), <<>>)

\* d = cls.fromkeys(iterable, value)
BeginFromKeys ==
    /\ data = <<>>
    /\ \E iterable \in PoolKeys, value \in RawValues :
          BeginCls(iterable, value, dict_fromkeys(iterable, value))

\* the map function takes the next element of the iterable: the built-in
\* map when the comprehension asks for a result, a pool as soon as it can
Take ==
    /\ pool.phase \in {"source", "named"}
    /\ pool.taken < Len(pool.elems)
    /\ map_function = "map" => pool.taken = pool.next
    /\ pool' = [pool EXCEPT
                  !.taken = @ + 1,
                  !.tasks = Append(@, PoolTask("queued",
                                               pool.elems[pool.taken + 1],
                                               "none"))]
    /\ UNCHANGED <<key_modifiers, value_modifiers, map_function, type_name,
                   data, created_with, last>>

\* the task i has become t; imap_unordered hands on the results in the
\* order in which the tasks finish
Worked(i, t) ==
    [pool EXCEPT
       !.tasks[i] = t,
       !.queue = IF /\ map_function = "imap_unordered"
                    /\ t.stage \in {"done", "failed"}
                 THEN Append(@, i)
                 ELSE @]

\* a worker unpacks the element of a task and applies the key chain
WorkKey ==
    /\ pool.phase \in {"source", "named"}
    /\ \E i \in 1..pool.taken :
          /\ pool.tasks[i].stage = "queued"
          /\ pool' = Worked(i, KeyStep(pool.tasks[i]))
    /\ UNCHANGED <<key_modifiers, value_modifiers, map_function, type_name,
                   data, created_with, last>>

\* a worker applies the value chain and returns the pair
WorkValue ==
    /\ pool.phase \in {"source", "named"}
    /\ \E i \in 1..pool.taken :
          /\ pool.tasks[i].stage = "key"
          /\ pool' = Worked(i, ValueStep(pool.tasks[i]))
    /\ UNCHANGED <<key_modifiers, value_modifiers, map_function, type_name,
                   data, created_with, last>>

RECURSIVE Subsequences(_)
\* the sequences obtained from s by leaving elements out
Subsequences(s) ==
    IF s = <<>> THEN {<<>>}
    ELSE Subsequences(Tail(s))
         \cup {<<Head(s)>> \o t : t \in Subsequences(Tail(s))}

\* what dict.update can still get from a one-shot iterator after a
\* suppressed ValueError: the built-in map has stopped taking elements, the
\* thread of a pool goes on taking them while dict.update iterates, so that
\* each of the remaining elements goes to one or the other.  When the
\* iterator is a generator and the thread of the pool is executing it (for
\* an element or for its end) as dict.update asks for the next element,
\* that request raises ValueError("generator already executing"):
\* AlreadyExecuting stands for it, an element at which dict.update raises
\* ValueError.
Leftovers(tm) ==
    LET NotTaken == SubSeq(pool.elems, pool.taken + 1, Len(pool.elems))
        AlreadyExecuting == <<>>
    IN  IF /\ pool.src.kind = "iterator"
           /\ map_function # "map"
           /\ tm.err = "ValueError"
        THEN Subsequences(NotTaken)
             \cup {t \o <<AlreadyExecuting>> : t \in Subsequences(NotTaken)}
        ELSE {NotTaken}

\* _create_modified_mapping has returned or raised tm: the next statement
\* of the with-block, or its end (Seen(left) is the source as dict.update
\* finds it)
PhaseEnds(tm) ==
    LET Seen(left) ==
            IF pool.src.kind = "iterator"
            THEN Source("iterator", SubSeq(pool.elems, 1, pool.taken) \o left)
            ELSE pool.src
    IN
    IF pool.phase = "named"
    THEN pool' = Merging(NamedModified(pool.src, pool.m1, pool.kwargs, tm))
    ELSE IF tm.err = "none" /\ pool.kwargs # <<>>
         THEN pool' = Transforming(pool, "named", pool.kwargs,
                                   Source("mapping", tm.d))
         ELSE \E left \in Leftovers(tm) :
                 pool' = Merging(SourceModified(Seen(left), pool.kwargs,
                                                NewMapping(tm)))

\* the comprehension has taken the result t
Collected(t) ==
    IF t.stage = "failed"
    THEN PhaseEnds(Transformed(t.err, <<>>, pool.taken))
    ELSE IF ~Hashable(t.pair[1])
    THEN PhaseEnds(Transformed("TypeError", <<>>, pool.taken))
    ELSE pool' = [pool EXCEPT
                    !.next = @ + 1,
                    !.queue = IF map_function = "imap_unordered"
                              THEN Tail(@)
                              ELSE @,
                    !.acc = Store(@, t.pair[1], t.pair[2])]

\* {key: value for key, value in ...}: the next result, which is that of
\* the task that finished first under imap_unordered and that of the next
\* task in the order of the iterable otherwise
Collect ==
    /\ pool.phase \in {"source", "named"}
    /\ IF map_function = "imap_unordered"
       THEN pool.queue # <<>>
       ELSE /\ pool.next < pool.taken
            /\ pool.tasks[pool.next + 1].stage \in {"done", "failed"}
    /\ Collected(pool.tasks[IF map_function = "imap_unordered"
                            THEN Head(pool.queue)
                            ELSE pool.next + 1])
    /\ UNCHANGED <<key_modifiers, value_modifiers, map_function, type_name,
                   data, created_with, last>>

\* the iterable and the results are exhausted
Exhausted ==
    /\ pool.phase \in {"source", "named"}
    /\ pool.taken = Len(pool.elems)
    /\ pool.next = Len(pool.elems)
    /\ PhaseEnds(Transformed("none", pool.acc, Len(pool.elems)))
    /\ UNCHANGED <<key_modifiers, value_modifiers, map_function, type_name,
                   data, created_with, last>>

\* dict.update(self, m or dict(), **kwargs), dict.__init__ likewise
Commit ==
    /\ pool.phase = "merge"
    /\ Recorded(pool.op, None, pool.value, pool.given, pool.kwargs,
                pool.before,
                IF pool.op = "update" THEN Merge(pool.before, pool.args)
                ELSE Constructed(Merge(<<>>, pool.args)))
    /\ pool' = Idle

\* the classes of the examples and the tests with each of the map functions
PoolClasses ==
    { Class("HostDict", Chain(<<"str.casefold", "str.strip">>),
            Chain(<<"ipaddress.ip_address">>)),
      Class("HostDict", Chain(<<"_strip", "_case_fold">>),
            Callable("_to_ipaddress")) }

InitPool ==
    /\ \E c \in PoolClasses :
          /\ type_name = c.name
          /\ key_modifiers = c.key_modifiers
          /\ value_modifiers = c.value_modifiers
    /\ map_function \in MapFunctions
    /\ data = <<>>
    /\ created_with = Chains
    /\ last = NoCall
    /\ pool = Idle

NextPool ==
    \/ Return
    \/ BeginInit
    \/ BeginUpdate
    \/ BeginFromKeys
    \/ Take
    \/ WorkKey
    \/ WorkValue
    \/ Collect
    \/ Exhausted
    \/ Commit

SpecPool == InitPool /\ [][NextPool]_vars

(***************************************************************************)
(* Vocabulary of the properties.                                           *)
(***************************************************************************)
Entries(d) == {d[i] : i \in 1..Len(d)}

\* the values a caller supplies: those of the calls and the default None of
\* setdefault
SuppliedValues == RawValues \cup {None}

\* every element is a pair that both chains modify without raising, to a
\* hashable key
AllModified(elems) ==
    \A i \in 1..Len(elems) :
        /\ Len(elems[i]) = 2
        /\ KStorable(elems[i][1])
        /\ VDefined(elems[i][2])

RECURSIVE WriteModified(_, _)
\* the plain dictionary obtained from d by writing K(k): V(v) for the pairs
\* in order
WriteModified(d, pairs) ==
    IF pairs = <<>> THEN d
    ELSE WriteModified(Store(d, K(Head(pairs)[1]), V(Head(pairs)[2])),
                       Tail(pairs))

RECURSIVE FirstChainError(_)
\* the error with which a chain first raises while the pairs are transformed
\* in order ("none" when no chain raises before the transformation ends, at
\* the last pair, at an element that is no pair or at a modified key that
\* cannot be hashed)
FirstChainError(elems) ==
    IF elems = <<>> \/ Len(Head(elems)) # 2 THEN "none"
    ELSE IF ~KDefined(Head(elems)[1]) THEN ModifyKey(Head(elems)[1]).err
    ELSE IF ~VDefined(Head(elems)[2]) THEN ModifyValue(Head(elems)[2]).err
    ELSE IF ~Hashable(K(Head(elems)[1])) THEN "none"
    ELSE FirstChainError(Tail(elems))

AllPairs(elems) == \A i \in 1..Len(elems) : Len(elems[i]) = 2

\* every element is a pair with a key that can be hashed as it is and as the
\* key chain returns it
AllHashable(elems) ==
    \A i \in 1..Len(elems) :
        Len(elems[i]) = 2
        => /\ Hashable(elems[i][1])
           /\ KDefined(elems[i][1]) => Hashable(K(elems[i][1]))

\* the error a modifier raised while the last call was applying a chain
ChainRaised ==
    CASE last.op \in {"setitem", "setdefault"} ->
            IF ~KDefined(last.key) THEN ModifyKey(last.key).err
            ELSE ModifyValue(last.value).err
      [] last.op \in {"getitem", "delitem", "contains", "pop", "get"} ->
            ModifyKey(last.key).err
      [] last.op = "fromkeys" ->
            FirstChainError(dict_fromkeys(last.src, last.value).data)
      [] last.op \in {"init", "update"} ->
            IF FirstChainError(last.src.elems) # "none"
            THEN FirstChainError(last.src.elems)
            ELSE IF AllModified(last.src.elems)
                 THEN FirstChainError(last.kwargs)
                 ELSE "none"
      [] OTHER -> "none"

Bulk == last.op \in {"init", "update"}

\* the value of the last pair of the positional source whose modified key
\* is mk
LastPositional(mk) ==
    LET e == last.src.elems
        i == CHOOSE j \in 1..Len(e) :
                /\ K(e[j][1]) = mk
                /\ \A h \in (j + 1)..Len(e) : K(e[h][1]) # mk
    IN  e[i][2]

\* a pair of the positional source and a named value with one modified key
Collide(i, j) == K(last.src.elems[i][1]) = K(last.kwargs[j][1])

\* a bulk call that modified every pair and returned
MergedAll ==
    /\ Bulk
    /\ last.err = "none"
    /\ AllModified(last.src.elems)
    /\ AllModified(last.kwargs)

(***************************************************************************)
(* Properties.                                                             *)
(***************************************************************************)

\* C1: every stored key is K(k0) for a supplied key k0 and every stored
\* value is V(v0) for a supplied value v0; no entry is unmodified.
C1_ModifiedKeyValueSpace ==
    \A i \in 1..Len(data) :
        /\ \E k0 \in RawKeys : KDefined(k0) /\ data[i][1] = K(k0)
        /\ \E v0 \in SuppliedValues : VDefined(v0) /\ data[i][2] = V(v0)

\* C2: construction from a source and named values that the chains modify
\* (to text or to other hashable keys) returns the mapping {K(k): V(v)},
\* positional pairs merged first, named values after them.
C2_ConstructionCorrect ==
    (/\ last.op = "init"
     /\ AllModified(last.src.elems)
     /\ AllModified(last.kwargs))
    => /\ last.err = "none"
       /\ Entries(data)
            = Entries(WriteModified(<<>>, last.src.elems \o last.kwargs))

\* C3: after set-item(k, v) succeeded, get-item, get and pop of every key
\* k2 with K(k2) = K(k) return exactly V(v): the value chain is applied once,
\* at write time, and not again on a read.
C3_SetGetRoundTrip ==
    (last.op = "setitem" /\ last.err = "none")
    => \A k2 \in RawKeys :
         (KDefined(k2) /\ K(k2) = K(last.key))
         => /\ GetItem(data, k2).err = "none"
            /\ GetItem(data, k2).ret = V(last.value)
            /\ Get(data, k2, None).ret = V(last.value)
            /\ Pop(data, k2, NO_DEFAULT).ret = V(last.value)

C3_Witness ==
    /\ last.op = "setitem"
    /\ last.err = "none"
    /\ V(last.value) # last.value
    /\ V(V(last.value)) # V(last.value)
    /\ \E k2 \in RawKeys :
         k2 # last.key /\ KDefined(k2) /\ K(k2) = K(last.key)

\* C4: update(S, **N) on contents M leaves the plain dictionary obtained
\* from M by writing K(k): V(v) for the pairs of S in order and then for the
\* pairs of N.
C4_UpdateIsMerge ==
    (/\ last.op = "update"
     /\ AllModified(last.src.elems)
     /\ AllModified(last.kwargs))
    => /\ last.err = "none"
       /\ Entries(data)
            = Entries(WriteModified(last.before,
                                    last.src.elems \o last.kwargs))

\* C5: when a modifier raises while an operation applies a chain, the
\* operation raises that same error to its caller.
C5_ModifierFailuresPropagate ==
    ChainRaised # "none" => last.err = ChainRaised

\* C6: when a modifier raises during set-item, set-default or update, the
\* contents after the call are the contents before it.
C6_NoPartialMutation ==
    (last.op \in {"setitem", "setdefault", "update"} /\ ChainRaised # "none")
    => data = last.before

\* C7: construction or update from a list or a one-shot iterator with an
\* element that is no pair raises ValueError (stated for the calls in which
\* no modifier raises first).
C7_MalformedPairsSurface ==
    (/\ Bulk
     /\ last.src.kind \in {"list", "iterator"}
     /\ ~AllPairs(last.src.elems)
     /\ AllHashable(last.src.elems)
     /\ ChainRaised = "none")
    => last.err = "ValueError"

\* C8 as claimed: when a positional pair and a named value have one modified
\* key, the value stored under it is V of the positional pair's value
\* (stated for the calls that modified every pair and returned).
C8_PositionalPrecedence ==
    MergedAll
    => \A i \in 1..Len(last.src.elems), j \in 1..Len(last.kwargs) :
         Collide(i, j)
         => /\ Has(data, K(last.kwargs[j][1]))
            /\ Lookup(data, K(last.kwargs[j][1]))
                 = V(LastPositional(K(last.kwargs[j][1])))

\* C8 amended: when update or construction modified every pair and returned,
\* and a positional pair and a named value have one modified key, the value
\* stored under it is V of the named value.
C8_NamedPrecedence ==
    MergedAll
    => \A i \in 1..Len(last.src.elems), j \in 1..Len(last.kwargs) :
         Collide(i, j)
         => /\ Has(data, K(last.kwargs[j][1]))
            /\ Lookup(data, K(last.kwargs[j][1])) = V(last.kwargs[j][2])

C8_Witness ==
    /\ MergedAll
    /\ last.op = "update"
    /\ \E i \in 1..Len(last.src.elems), j \in 1..Len(last.kwargs) :
         /\ Collide(i, j)
         /\ last.src.elems[i][1] # last.kwargs[j][1]
         /\ V(last.src.elems[i][2]) # V(last.kwargs[j][2])

\* C9: get-item, delete-item and pop without a default raise KeyError
\* exactly when K(k) is not a stored key, and then leave the contents as
\* they were (stated for the keys that the chain returns hashable).
C9_KeyNotFound ==
    (/\ \/ last.op \in {"getitem", "delitem"}
        \/ last.op = "pop" /\ last.value = NO_DEFAULT
     /\ KStorable(last.key))
    => /\ last.err = "KeyError" <=> K(last.key) \notin Keys(last.before)
       /\ last.err = "KeyError" => data = last.before

C9_Witness ==
    /\ last.op \in {"getitem", "delitem", "pop"}
    /\ last.value \in {None, NO_DEFAULT}
    /\ last.err = "KeyError"
    /\ last.before # <<>>
    /\ K(last.key) # last.key

\* C10: when K(k) is stored, delete-item(k) and pop(k) remove exactly the
\* entry under K(k), every other entry stays, pop returns the stored value
\* as it is, and k is no longer contained.
C10_RemovalEffect ==
    (/\ last.op \in {"delitem", "pop"}
     /\ KDefined(last.key)
     /\ K(last.key) \in Keys(last.before))
    => /\ last.err = "none"
       /\ Entries(data)
            = {e \in Entries(last.before) : e[1] # K(last.key)}
       /\ Len(data) = Len(last.before) - 1
       /\ last.op = "pop"
            => \E e \in Entries(last.before) :
                 e[1] = K(last.key) /\ last.ret = e[2]
       /\ Contains(data, last.key).ret = PyFalse

C10_Witness ==
    /\ last.op = "pop"
    /\ last.err = "none"
    /\ Len(last.before) = 2
    /\ Len(data) = 1
    /\ K(last.key) # last.key
    /\ V(last.ret) # last.ret

\* the value get and pop answer with: the stored one, else the default
StoredOr(d, mk, default) == IF Has(d, mk) THEN Lookup(d, mk) ELSE default

\* pop(k, default) on an absent key returns the default as supplied and
\* changes nothing
PopDefault ==
    (/\ last.op = "pop"
     /\ last.value # NO_DEFAULT
     /\ KStorable(last.key)
     /\ K(last.key) \notin Keys(last.before))
    => /\ last.err = "none"
       /\ last.ret = last.value
       /\ data = last.before

\* C11 as claimed: get(k, default) returns the value stored under K(k), else
\* the default as supplied, never raises for any key and never changes the
\* mapping; pop(k, default) on an absent key returns the default.
C11_GetNeverRaises ==
    /\ last.op = "get"
         => /\ last.err = "none"
            /\ last.ret = StoredOr(last.before, K(last.key), last.value)
            /\ data = last.before
    /\ PopDefault

\* C11 amended: get(k, default) never raises KeyError and never changes the
\* mapping; it raises only what the key chain raises, or TypeError for a
\* modified key that cannot be hashed, and otherwise returns the value
\* stored under K(k), else the default as supplied; pop(k, default) on an
\* absent key returns the default.
C11_GetWithDefault ==
    /\ last.op = "get"
         => /\ data = last.before
            /\ last.err # "KeyError"
            /\ ~KDefined(last.key) => last.err = ModifyKey(last.key).err
            /\ (KDefined(last.key) /\ ~Hashable(K(last.key)))
                 => last.err = "TypeError"
            /\ KStorable(last.key)
                 => /\ last.err = "none"
                    /\ last.ret
                         = StoredOr(last.before, K(last.key), last.value)
    /\ PopDefault

\* get returned a default that the value chain would have changed
C11_Witness ==
    /\ last.op = "get"
    /\ last.err = "none"
    /\ last.before # <<>>
    /\ K(last.key) \notin Keys(last.before)
    /\ K(last.key) # last.key
    /\ last.ret = last.value
    /\ V(last.value) # last.value

\* C12: set-default(k, d) stores V(d) under K(k) if and only if K(k) was
\* not stored before; a stored K(k) keeps its value and every other entry
\* stays; the contents are those of a plain dictionary after
\* setdefault(K(k), V(d)).
C12_SetDefault ==
    (/\ last.op = "setdefault"
     /\ KStorable(last.key)
     /\ VDefined(last.value))
    => /\ last.err = "none"
       /\ K(last.key) \in Keys(last.before) => data = last.before
       /\ K(last.key) \notin Keys(last.before)
            => data = Append(last.before, <<K(last.key), V(last.value)>>)
       /\ data = dict_setdefault(last.before, K(last.key),
                                 V(last.value)).data

\* set-default found K(k) stored with another value than V(d)
C12_Witness ==
    /\ last.op = "setdefault"
    /\ last.err = "none"
    /\ K(last.key) # last.key
    /\ V(last.value) # last.value
    /\ Has(last.before, K(last.key))
    /\ Lookup(last.before, K(last.key)) # V(last.value)
    /\ Len(last.before) = 2

\* the membership test of k on the contents the last call left says yes
ContainedNow(k) ==
    /\ Contains(data, k).err = "none"
    /\ Contains(data, k).ret = PyTrue

\* C13: contains(k) is true exactly when K(k) is a stored key, it does not
\* raise and it changes nothing; it is true for every supplied key after
\* construction, from-keys, set-item, set-default or update inserted it,
\* and false after delete-item or pop removed it.
C13_Membership ==
    /\ (last.op = "contains" /\ KStorable(last.key))
         => /\ last.err = "none"
            /\ last.ret = Bool(K(last.key) \in Keys(last.before))
            /\ data = last.before
    /\ (last.op \in {"setitem", "setdefault"} /\ last.err = "none")
         => ContainedNow(last.key)
    /\ (/\ last.op \in {"init", "update"}
        /\ last.err = "none"
        /\ AllPairs(last.src.elems))
         => /\ \A i \in 1..Len(last.src.elems) :
                 ContainedNow(last.src.elems[i][1])
            /\ \A j \in 1..Len(last.kwargs) :
                 ContainedNow(last.kwargs[j][1])
    /\ (last.op = "fromkeys" /\ last.err = "none")
         => \A i \in 1..Len(last.src.elems) :
              ContainedNow(last.src.elems[i][1])
    /\ (/\ last.op \in {"delitem", "pop"}
        /\ last.err = "none"
        /\ K(last.key) \in Keys(last.before))
         => Contains(data, last.key).ret = PyFalse

\* the keys of the iterable that fromkeys was called with
SuppliedKeys == {last.src.elems[i][1] : i \in 1..Len(last.src.elems)}

\* C14: from-keys(keys, value) returns the mapping {K(k): V(value)} over the
\* keys, with None for an omitted value, and raises TypeError for an
\* argument that is not iterable (stated for keys and a value that the
\* chains modify without raising, to hashable keys).
C14_FromKeys ==
    last.op = "fromkeys"
    => /\ last.src.kind = "number"
            => last.err = "TypeError" /\ data = <<>>
       /\ (/\ last.src.kind = "keys"
           /\ VDefined(last.value)
           /\ \A k \in SuppliedKeys : Hashable(k) /\ KStorable(k))
            => /\ last.err = "none"
               /\ Entries(data)
                    = {<<K(k), V(last.value)>> : k \in SuppliedKeys}
               /\ Len(data) = Cardinality({K(k) : k \in SuppliedKeys})

\* from-keys over two keys that the key chain folds to one, with a value that
\* the value chain changes
C14_Witness ==
    /\ last.op = "fromkeys"
    /\ last.err = "none"
    /\ Len(last.src.elems) = 2
    /\ Cardinality(SuppliedKeys) = 2
    /\ Len(data) = 1
    /\ V(last.value) # last.value
    /\ V(V(last.value)) # V(last.value)

\* the key chain returns for k a key that cannot be hashed
KUnhashable(k) == KDefined(k) /\ ~Hashable(K(k))

\* the i-th element of the positional source is the first that the
\* transformation cannot store: the elements before it are modified pairs
\* and its own modified key cannot be hashed
FirstUnhashable(i) ==
    /\ AllModified(SubSeq(last.src.elems, 1, i - 1))
    /\ Len(last.src.elems[i]) = 2
    /\ KUnhashable(last.src.elems[i][1])
    /\ VDefined(last.src.elems[i][2])

\* an unhashable modified key makes the last call raise TypeError and store
\* nothing: set-item, set-default, get, the membership test, update and
\* from-keys
UnhashableRefused ==
    /\ (/\ last.op \in {"setitem", "setdefault"}
        /\ KUnhashable(last.key)
        /\ VDefined(last.value))
         => last.err = "TypeError" /\ data = last.before
    /\ (last.op \in {"get", "contains"} /\ KUnhashable(last.key))
         => last.err = "TypeError" /\ data = last.before
    /\ (/\ last.op = "update"
        /\ \E i \in 1..Len(last.src.elems) : FirstUnhashable(i))
         => last.err = "TypeError" /\ data = last.before
    /\ (last.op = "fromkeys" /\ \E k \in SuppliedKeys : KUnhashable(k))
         => last.err = "TypeError" /\ data = <<>>

\* C15 as claimed: set-item, get, pop, set-default, update, from-keys and the
\* membership test raise TypeError whenever the modified key cannot be
\* hashed, in every state of the mapping, the empty one included, and store
\* nothing.
C15_UnhashableAlways ==
    /\ UnhashableRefused
    /\ (last.op = "pop" /\ KUnhashable(last.key))
         => last.err = "TypeError" /\ data = last.before

\* C15 amended: as claimed, except that pop hashes the key only when the
\* mapping holds an entry: on the empty mapping it raises KeyError, or
\* returns the default it was given.
C15_Unhashable ==
    /\ UnhashableRefused
    /\ (last.op = "pop" /\ KUnhashable(last.key))
         => /\ data = last.before
            /\ last.before # <<>> => last.err = "TypeError"
            /\ (last.before = <<>> /\ last.value = NO_DEFAULT)
                 => last.err = "KeyError"
            /\ (last.before = <<>> /\ last.value # NO_DEFAULT)
                 => last.err = "none" /\ last.ret = last.value

\* pop without a default of a key that the key chain returns unhashable,
\* on the empty mapping
C15_Witness ==
    /\ last.op = "pop"
    /\ Truthy(key_modifiers)
    /\ KUnhashable(last.key)
    /\ last.value = NO_DEFAULT
    /\ last.before = <<>>
    /\ last.err = "KeyError"

\* a specification that is not empty and is neither a callable nor an
\* iterable of callables, or is a text
Invalid(modifiers) ==
    Truthy(modifiers) /\ modifiers.kind \in {"number", "text"}

\* the last call applied the key chain: an item operation, or a bulk call
\* whose first element is a pair
AppliedKeyChain ==
    \/ last.op \in {"getitem", "setitem", "delitem", "contains",
                    "setdefault", "pop", "get"}
    \/ /\ last.op \in {"init", "update"}
       /\ \/ last.src.elems # <<>> /\ Len(last.src.elems[1]) = 2
          \/ last.src.elems = <<>> /\ last.kwargs # <<>>
    \/ /\ last.op = "fromkeys"
       /\ last.src.elems # <<>>
       /\ \A k \in SuppliedKeys : Hashable(k)

\* the last call applied the value chain as well: the key chain returned
\* for the first key
AppliedValueChain ==
    \/ last.op \in {"setitem", "setdefault"} /\ KDefined(last.key)
    \/ /\ last.op \in {"init", "update"}
       /\ \/ /\ last.src.elems # <<>>
             /\ Len(last.src.elems[1]) = 2
             /\ KDefined(last.src.elems[1][1])
          \/ /\ last.src.elems = <<>>
             /\ last.kwargs # <<>>
             /\ KDefined(last.kwargs[1][1])
    \/ /\ last.op = "fromkeys"
       /\ last.src.elems # <<>>
       /\ \A k \in SuppliedKeys : Hashable(k)
       /\ KDefined(last.src.elems[1][1])

\* C16: an invalid modifier specification raises nothing when the type is
\* defined and on calls that apply no chain; every call that applies the
\* chain raises TypeError and stores nothing.
C16_LazyConfigurationError ==
    /\ (Invalid(key_modifiers) /\ AppliedKeyChain)
         => last.err = "TypeError" /\ data = last.before
    /\ (Invalid(value_modifiers) /\ AppliedValueChain)
         => last.err = "TypeError" /\ data = last.before
    /\ (/\ last.op \in {"init", "update"}
        /\ last.src.kind # "number"
        /\ last.src.elems = <<>>
        /\ last.kwargs = <<>>)
         => last.err = "none" /\ data = last.before

\* construction with one named value under an invalid key specification
C16_Witness ==
    /\ Invalid(key_modifiers)
    /\ last.op = "init"
    /\ last.src = NoSource
    /\ Len(last.kwargs) = 1
    /\ last.err = "TypeError"
    /\ data = <<>>

\* the chains of the class as they are when the call is made
KNow(k) == ModifyItem(k, key_modifiers).v
VNow(v) == ModifyItem(v, value_modifiers).v

\* C17: replacing a chain of the class changes no entry of an existing
\* instance, and every later call, on an instance created before or after
\* the change, applies the chains the class has then.
C17_LiveConfiguration ==
    /\ last.op \in {"_key_modifiers", "_value_modifiers"}
         => data = last.before
    /\ (last.op = "setitem" /\ last.err = "none")
         => data = Store(last.before, KNow(last.key), VNow(last.value))
    /\ (last.op = "setdefault" /\ last.err = "none")
         => data = dict_setdefault(last.before, KNow(last.key),
                                   VNow(last.value)).data
    /\ (last.op \in {"getitem", "get", "pop"} /\ Has(last.before, KNow(last.key))
        /\ last.err = "none")
         => last.ret = Lookup(last.before, KNow(last.key))
    /\ (last.op \in {"delitem", "pop"} /\ last.err = "none")
         => data = Remove(last.before, KNow(last.key))
    /\ (last.op = "contains" /\ last.err = "none")
         => last.ret = Bool(Has(last.before, KNow(last.key)))
    /\ (last.op = "getitem" /\ last.err = "KeyError")
         => ~Has(last.before, KNow(last.key))
    /\ (last.op = "init" /\ last.err = "none" /\ AllPairs(last.src.elems))
         => Keys(data) = {KNow(e[1]) :
                            e \in Entries(last.src.elems \o last.kwargs)}

\* set-item on an instance created under other chains than the class has
\* now, which still holds an entry the present key chain would have changed
C17_Witness ==
    /\ last.op = "setitem"
    /\ last.err = "none"
    /\ created_with.key_modifiers # key_modifiers
    /\ created_with.value_modifiers # value_modifiers
    /\ KNow(last.key) # ModifyItem(last.key, created_with.key_modifiers).v
    /\ VNow(last.value)
         # ModifyItem(last.value, created_with.value_modifiers).v
    /\ \E e \in Entries(last.before) :
         /\ KNow(e[1]) # e[1]
         /\ e \in Entries(data)


(***************************************************************************)
(* Attribute access (SpecAttr)                                             *)
(***************************************************************************)
\* the item read of the name, on the contents the last call found
ItemRead == GetItem(last.before, last.key)

\* the attribute read of the name, on the contents the last call left
ReadBack == GetAttr(data, last.key)

\* an attribute read of a name whose modified key is stored
ReadsStored ==
    /\ last.op = "getattr"
    /\ KStorable(last.key)
    /\ Has(last.before, K(last.key))

\* C18 as stated: for every name n, the names of the mapping's own methods
\* included, with K(n) stored, the attribute read of n returns what the item
\* read of n returns, and after an attribute write of (n, v) the attribute
\* read of n returns V(v).
C18_AttributeReadIsItemRead ==
    /\ ReadsStored
         => /\ last.err = ItemRead.err
            /\ last.ret = ItemRead.ret
    /\ (last.op = "setattr" /\ last.err = "none")
         => /\ ReadBack.err = "none"
            /\ ReadBack.ret = V(last.value)

\* C18 amended: the attribute read of a name that the mapping type does not
\* define, with K(n) stored, returns the value stored under K(n), which is
\* what the item read of n returns, and changes nothing; after an attribute
\* write of (n, v) the attribute read of such a name returns V(v).  The
\* attribute read of a name that the type defines returns that attribute,
\* whatever is stored.
C18_AttributeRead ==
    /\ (ReadsStored /\ last.key \notin ClassAttributes)
         => /\ last.err = "none"
            /\ last.ret = Lookup(last.before, K(last.key))
            /\ last.ret = ItemRead.ret
            /\ data = last.before
    /\ (last.op = "setattr" /\ last.err = "none"
        /\ last.key \notin ClassAttributes)
         => /\ ReadBack.err = "none"
            /\ ReadBack.ret = V(last.value)
    /\ (last.op = "getattr" /\ last.key \in ClassAttributes)
         => /\ last.err = "none"
            /\ last.ret = BoundMethod(last.key)
            /\ data = last.before

\* the attribute GET is read under a folding key chain: the item stored
\* under the name of the method get is returned
C18_Witness ==
    /\ last.op = "getattr"
    /\ last.err = "none"
    /\ last.key \notin ClassAttributes
    /\ K(last.key) \in ClassAttributes
    /\ Has(last.before, K(last.key))
    /\ last.ret = Lookup(last.before, K(last.key))
    /\ last.ret # None

\* an attribute read or delete of a name whose modified key is not stored
NotStored ==
    /\ last.op \in {"getattr", "delattr"}
    /\ KStorable(last.key)
    /\ ~Has(last.before, K(last.key))

\* the attribute-not-found error, naming the type and the name as written
NotFound ==
    /\ last.err = "AttributeError"
    /\ last.ret = Str(<<"'", type_name, "' object has no attribute '">>
                      \o last.key.chars \o <<"'.">>)
    /\ data = last.before

\* C19 as stated: the attribute read and the attribute delete of a name n
\* with K(n) not stored raise the attribute-not-found error, with a message
\* naming the type of the mapping and n, and leave the mapping unchanged.
C19_AttributeNotFoundAlways == NotStored => NotFound

\* C19 amended: the attribute delete of any name n, and the attribute read
\* of a name n that the mapping type does not define, with K(n) not stored,
\* raise the attribute-not-found error, with a message naming the type of
\* the mapping and n as written, and leave the mapping unchanged; no
\* attribute read or delete raises the key-not-found error.
C19_AttributeNotFound ==
    /\ (NotStored /\ (last.op = "delattr" \/ last.key \notin ClassAttributes))
         => NotFound
    /\ last.op \in {"getattr", "delattr"} => last.err # "KeyError"

\* an attribute whose modified key is not stored is deleted on a subclass
\* that holds another entry; the name differs from its modified key
C19_Witness ==
    /\ last.op = "delattr"
    /\ last.err = "AttributeError"
    /\ type_name # "ModifiableItemsAttrDict"
    /\ K(last.key) # last.key
    /\ ~Has(last.before, K(last.key))
    /\ last.ret = Message(last.key)
    /\ Len(last.before) > 0
    /\ data = last.before

\* what the item write and the item delete of the name would have done
ItemWritten == SetItem(last.before, last.key, last.value)
ItemDeleted == DelItem(last.before, last.key)

\* C20: an attribute write of (n, v) leaves the mapping as the item write of
\* (n, v) would, raising what it would raise; an attribute delete of n with
\* K(n) stored leaves the mapping as the item delete of n would, that is
\* without the entry of K(n) and with every other entry.
C20_AttributeWriteDelete ==
    /\ last.op = "setattr"
         => /\ data = ItemWritten.data
            /\ last.err = ItemWritten.err
            /\ (KStorable(last.key) /\ VDefined(last.value))
                 => data = Store(last.before, K(last.key), V(last.value))
    /\ (last.op = "delattr" /\ KStorable(last.key)
        /\ Has(last.before, K(last.key)))
         => /\ data = ItemDeleted.data
            /\ last.err = "none"
            /\ ~Has(data, K(last.key))
            /\ Len(data) = Len(last.before) - 1

\* an attribute write under chains that change both the name and the value,
\* to a name that is also the name of a method, beside another entry
C20_Witness ==
    /\ last.op = "setattr"
    /\ last.err = "none"
    /\ K(last.key) # last.key
    /\ V(last.value) # last.value
    /\ K(last.key) \in ClassAttributes
    /\ Len(last.before) > 0
    /\ ~Has(last.before, K(last.key))
    /\ Has(data, K(last.key))
    /\ Lookup(data, K(last.key)) = V(last.value)

(***************************************************************************)
(* The value set-default returns                                           *)
(***************************************************************************)
\* C25: set-default returns None whenever it returns, both when it stored
\* V(d) and when K(k) was stored already; it never returns the stored value.
C25_SetDefaultReturnsNone ==
    (last.op = "setdefault" /\ last.err = "none")
    => /\ last.ret = None
       /\ (Has(last.before, K(last.key))
           /\ Lookup(last.before, K(last.key)) # None)
            => last.ret # Lookup(last.before, K(last.key))

\* set-default found K(k) stored with a value that is not None, under a
\* folding key chain
C25_Witness ==
    /\ last.op = "setdefault"
    /\ last.err = "none"
    /\ last.ret = None
    /\ K(last.key) # last.key
    /\ Has(last.before, K(last.key))
    /\ Lookup(last.before, K(last.key)) # None
    /\ last.value # None
    /\ data = last.before

(***************************************************************************)
(* update from a list with a malformed element                             *)
(***************************************************************************)
\* the last call got a list whose i-th element is no pair, after pairs only
MalformedAt(i) ==
    /\ last.src.kind = "list"
    /\ i > 1
    /\ Len(last.src.elems[i]) # 2
    /\ \A j \in 1..(i - 1) : Len(last.src.elems[j]) = 2

\* C27: update from a list of pairs with a malformed element after one or
\* more well-formed pairs raises and leaves the contents as they were before
\* the call: none of the pairs before the malformed element and none of the
\* named values is stored.
C27_MalformedUpdateUnchanged ==
    (/\ last.op = "update"
     /\ \E i \in 1..Len(last.src.elems) : MalformedAt(i))
    => /\ last.err # "none"
       /\ data = last.before

(***************************************************************************)
(* The modifier application algorithm (SpecModify)                         *)
(***************************************************************************)
RECURSIVE Threaded(_, _)
\* fn(...f2(f1(item))...): the last function applied to what the functions
\* before it made of the item, unless one of those raised
ThreadedLast(r, f) == IF r.err # "none" THEN r ELSE CallModifier(f, r.v)

Threaded(item, fns) ==
    IF fns = <<>> THEN Ok(item)
    ELSE ThreadedLast(Threaded(item, SubSeq(fns, 1, Len(fns) - 1)),
                      fns[Len(fns)])

\* the outcome the last application of a specification had
AppliedOutcome == [err |-> last.err, v |-> last.ret]

\* the plain dictionary built from the arguments of the last call
PlainDict == dict_update(<<>>, last.src, last.kwargs)

\* C23: an absent or empty specification returns the item as it is, a single
\* callable f returns f(item), a chain [f1, ..., fn] returns
\* fn(...f2(f1(item))...), every function applied once, left to right, to the
\* result of the one before; with no modifiers an instance holds what a plain
\* dictionary built from the same arguments holds.
C23_ModifierApplication ==
    /\ last.op = "_modify_item"
         => /\ (key_modifiers.kind = "none" \/ key_modifiers = Chain(<<>>))
                 => AppliedOutcome = Ok(last.key)
            /\ key_modifiers.kind = "callable"
                 => AppliedOutcome
                      = CallModifier(key_modifiers.fns[1], last.key)
            /\ key_modifiers.kind = "chain"
                 => AppliedOutcome = Threaded(last.key, key_modifiers.fns)
    /\ (/\ last.op = "init"
        /\ ~Truthy(key_modifiers)
        /\ ~Truthy(value_modifiers)
        /\ PlainDict.err = "none")
         => /\ last.err = "none"
            /\ data = PlainDict.data

\* a chain of two functions is applied to an item for which their order
\* matters and for which one function alone gives another result
C23_Witness ==
    /\ last.op = "_modify_item"
    /\ last.err = "none"
    /\ key_modifiers.kind = "chain"
    /\ Len(key_modifiers.fns) = 2
    /\ last.ret # last.key
    /\ last.ret # CallModifier(key_modifiers.fns[1], last.key).v
    /\ last.ret # CallModifier(key_modifiers.fns[2], last.key).v
    /\ last.ret
         # Threaded(last.key,
                    <<key_modifiers.fns[2], key_modifiers.fns[1]>>).v

(***************************************************************************)
(* The order of the entries under the sequential strategy                  *)
(***************************************************************************)
\* the modified keys of the pairs, in the order of the pairs
ModifiedKeys(elems) == [i \in 1..Len(elems) |-> K(elems[i][1])]

RECURSIVE FirstOccurrences(_)
\* a sequence without the repetitions of its elements
FirstOccurrences(ks) ==
    IF ks = <<>> THEN <<>>
    ELSE <<Head(ks)>>
         \o FirstOccurrences(SelectSeq(Tail(ks), LAMBDA x : x # Head(ks)))

\* the value of the last pair whose modified key is mk
LastValue(elems, mk) ==
    elems[CHOOSE i \in 1..Len(elems) :
            /\ K(elems[i][1]) = mk
            /\ \A j \in (i + 1)..Len(elems) : K(elems[j][1]) # mk][2]

\* the last call constructed an instance, sequentially, from a source of
\* pairs whose keys the key chain modifies, the value chain modifying the
\* last value of every modified key
SequentialFromPairs ==
    /\ last.op = "init"
    /\ map_function = "map"
    /\ last.kwargs = <<>>
    /\ AllPairs(last.src.elems)
    /\ \A i \in 1..Len(last.src.elems) :
         /\ KStorable(last.src.elems[i][1])
         /\ VDefined(LastValue(last.src.elems, K(last.src.elems[i][1])))

\* C24: with the sequential strategy, construction from a source yields the
\* entries in the order in which their modified keys first occur in the
\* source, one entry for each modified key, whose value is V of the last
\* pair with that modified key.
C24_SequentialOrder ==
    SequentialFromPairs
    => /\ last.err = "none"
       /\ [i \in 1..Len(data) |-> data[i][1]]
            = FirstOccurrences(ModifiedKeys(last.src.elems))
       /\ \A i \in 1..Len(data) :
            data[i][2] = V(LastValue(last.src.elems, data[i][1]))

(***************************************************************************)
(* Stored keys as arguments of the lookups (SpecKeys)                      *)
(***************************************************************************)
\* the membership test and the item read of the stored key s find its entry
Retrievable(s) ==
    /\ Contains(data, s) = Outcome("none", PyTrue, data)
    /\ GetItem(data, s) = Outcome("none", Lookup(data, s), data)

\* C26 as stated: in every state and for every key chain, idempotent or
\* not, every stored key s is contained and get-item(s) returns the value
\* stored under s.
C26_StoredKeysRetrievable == \A s \in Keys(data) : Retrievable(s)

\* C26 amended: every stored key s that the key chain leaves as it is,
\* K(s) = s, is contained and get-item(s) returns the value stored under s;
\* a stored key s with another modified key K(s) is looked up under K(s):
\* when K(s) is stored, s is contained and get-item(s) returns the value
\* stored under K(s); when it is not, s is not contained and get-item(s)
\* raises the key-not-found error.
C26_FixedKeysRetrievable ==
    \A s \in Keys(data) :
        /\ (KDefined(s) /\ K(s) = s) => Retrievable(s)
        /\ (KStorable(s) /\ Has(data, K(s)))
             => /\ Contains(data, s) = Outcome("none", PyTrue, data)
                /\ GetItem(data, s)
                     = Outcome("none", Lookup(data, K(s)), data)
        /\ (KStorable(s) /\ ~Has(data, K(s)))
             => /\ Contains(data, s) = Outcome("none", PyFalse, data)
                /\ GetItem(data, s).err = "KeyError"

\* under a key chain that is not idempotent a value was written under a key
\* that the chain changes again, beside a key that the chain leaves as it is
C26_Witness ==
    /\ last.op = "setitem"
    /\ last.err = "none"
    /\ K(last.key) # last.key
    /\ K(K(last.key)) # K(last.key)
    /\ Has(data, K(last.key))
    /\ ~Has(data, K(K(last.key)))
    /\ \E s \in Keys(data) : K(s) = s

(***************************************************************************)
(* Bulk calls under the map functions (SpecPool)                           *)
(***************************************************************************)
\* the pairs a bulk call is given: the pairs of the source and the named
\* values, for fromkeys each key with the value
SuppliedPairs ==
    IF last.op = "fromkeys"
    THEN {<<last.src.elems[i][1], last.value>> : i \in 1..Len(last.src.elems)}
    ELSE {p \in Entries(last.src.elems) \cup Entries(last.kwargs) : Len(p) = 2}

\* both chains have completed on the pair p and e is what they returned
FullyModified(e) ==
    \E p \in SuppliedPairs :
        /\ KDefined(p[1])
        /\ VDefined(p[2])
        /\ e = <<K(p[1]), V(p[2])>>

\* C21 as stated: under each of the map functions and every interleaving of
\* the workers, while a bulk construction, update or fromkeys is under way
\* the mapping is as it was before the call, with no pair of the call in it,
\* and every entry the call has added when it returns is <<K(k), V(v)>> of
\* a pair <<k, v>> of the call on which both chains have completed.
C21_NoEntryMidTransformation ==
    /\ pool.phase # "idle" => data = pool.before
    /\ last.op \in {"init", "update", "fromkeys"}
       => \A e \in Entries(data) \ Entries(last.before) : FullyModified(e)

\* what the call of the last step returns with the built-in map
SequentialResult ==
    IF last.op = "update" THEN Update(last.before, last.src, last.kwargs)
    ELSE New(last.src, last.kwargs)

\* the source pairs of the last call are pairs whose modified keys are
\* pairwise distinct
UniqueModifiedKeys(pairs) ==
    /\ AllPairs(pairs)
    /\ \A i \in 1..Len(pairs) : KDefined(pairs[i][1])
    /\ \A i, j \in 1..Len(pairs) :
          i # j => K(pairs[i][1]) # K(pairs[j][1])

\* C22 as stated: when the modified keys of the source pairs are pairwise
\* distinct, a construction or update with imap_unordered leaves, in
\* whatever order the workers finish, a mapping with the same set of
\* entries as the same call with the built-in map.
C22_StrategyIndependence ==
    (/\ map_function = "imap_unordered"
     /\ last.op \in {"init", "update"}
     /\ UniqueModifiedKeys(last.src.elems \o last.kwargs))
    => Entries(data) = Entries(SequentialResult.data)
====
